---- MODULE Spec2Model ----
(***************************************************************************)
(* Model of the CardRush listing scraper (src/scraper.py): main,           *)
(* scrape_pages and write_csv.  One run of main is modelled as a state     *)
(* machine whose steps are the top of a page iteration, one fetch attempt  *)
(* (the whole try/except of one iteration of the retry loop), the end of a *)
(* page iteration (delay and checkpoint) and the tail of main (finally     *)
(* and final write).  The web site, the browser sessions and the           *)
(* keyboard interrupt are the environment.                                 *)
(***************************************************************************)
EXTENDS Integers, Sequences, FiniteSets, TLC

\* ------------------------------------------------------------------ bounds
MaxEnd == 5          \* end_page ranges over 1..MaxEnd (or is not given)
MaxRetry == 2        \* retry ranges over 0..MaxRetry
MaxAttempts == 5     \* pages of the range times attempts per page
MaxCheckpoint == 2   \* checkpoint_every ranges over 0..MaxCheckpoint
MaxReset == 2        \* reset_session_every ranges over 0..MaxReset

\* ------------------------------------------------------------ data model
None == -1         \* Python None for the optional end_page

\* A row is reduced to the two columns that matter here: the product ID
\* (row[5]) and the price column, which tells two listings of one ID apart.
Row(pid, price) == [pid |-> pid, price |-> price]

Rows == {Row("", 1), Row("a", 1), Row("a", 2)}

Header == [pid |-> "HEADER", price |-> 0]

NoRow == [pid |-> "NONE", price |-> 0]

\* What a page can show: the rows of its li.list_item_cell elements, in
\* DOM order
ItemLists == {<<Row("", 1)>>,
              <<Row("a", 1)>>,
              <<Row("a", 2), Row("", 1)>>,
              <<Row("", 1), Row("a", 1)>>,
              <<Row("a", 1), Row("a", 2)>>}

\* The items processed before an exception ends the attempt: the proper
\* prefixes of what a page can show
Prefixes == {SubSeq(items, 1, n) : items \in ItemLists, n \in 0..1}

StartPages == {1, 2}

\* The output file: whether the path exists, and its lines
NoFile == [exists |-> FALSE, lines |-> << >>]

InitialFiles == {NoFile,
                 [exists |-> TRUE, lines |-> <<Header, Row("a", 1)>>]}

CsvModes == {"new", "append", "overwrite"}

VARIABLES
    args,                \* the Args of the run (read-only after Init)
    file,                \* the output file
    pc,                  \* position of main / scrape_pages
    page,                \* loop variable of scrape_pages
    attempt,             \* loop variable of the retry loop
    rows,                \* accumulated rows
    seen_ids,            \* product IDs seen so far
    next_checkpoint_at,  \* scrape_pages' checkpoint marker
    total_pages,         \* result of discover_total_pages (None before it)
    driver,              \* scrape_pages' current driver (a session id)
    main_driver,         \* main's driver variable
    live,                \* sessions created and not yet quit
    exit_code,           \* return value of main (None while running)
    \* ---- history (observation only)
    file0,               \* the file before the run
    cause,               \* why main raised: "none", "interrupt", "reset_boot"
    log,                 \* summary of the writes of rows so far
    first_seen,          \* product ID -> first row processed with that ID
    empties,             \* number of processed items with an empty ID
    pg,                  \* what happened on the current page
    clk,                 \* the clock, as far as rate_limit can tell
    lastw,               \* argument and result of the last write_csv call
    responses            \* buying_scraper: the requests made and what came back

vars == <<args, file, pc, page, attempt, rows, seen_ids, next_checkpoint_at,
          total_pages, driver, main_driver, live, exit_code,
          file0, cause, log, first_seen, empties, pg, clk, lastw,
          responses>>

\* ------------------------------------------------------------- write_csv
\* write_csv without the existence check of mode new
write_csv_clobber(f, rws, mode) ==
    LET appending == mode = "append" /\ f.exists
    IN  [raised |-> FALSE,
         file |-> [exists |-> TRUE,
                   lines |-> IF appending
                             THEN f.lines \o rws
                             ELSE <<Header>> \o rws]]

\* write_csv that writes the header on every call
write_csv_header_always(f, rws, mode) ==
    IF mode = "new" /\ f.exists
    THEN [raised |-> TRUE, file |-> f]
    ELSE LET appending == mode = "append" /\ f.exists
         IN  [raised |-> FALSE,
              file |-> [exists |-> TRUE,
                        lines |-> IF appending
                                  THEN f.lines \o <<Header>> \o rws
                                  ELSE <<Header>> \o rws]]

\* Result of write_csv: whether it raised FileExistsError, and the file after
write_csv(f, rws, mode) ==
    IF mode = "new" /\ f.exists
    THEN [raised |-> TRUE, file |-> f]
    ELSE LET appending == mode = "append" /\ f.exists
         IN  [raised |-> FALSE,
              file |-> [exists |-> TRUE,
                        lines |-> IF appending
                                  THEN f.lines \o rws
                                  ELSE <<Header>> \o rws]]

\* main's preparation of the output file before scraping: the exit code
\* (None when main goes on) and the file after
main_prepare(f, csv_mode) ==
    IF csv_mode = "overwrite" /\ f.exists
    THEN [exit |-> None, file |-> write_csv(f, << >>, "overwrite").file]
    ELSE IF csv_mode = "new" /\ f.exists
    THEN [exit |-> 2, file |-> f]
    ELSE IF csv_mode = "append" /\ ~f.exists
    THEN [exit |-> None, file |-> write_csv(f, << >>, "append").file]
    ELSE [exit |-> None, file |-> f]

\* A final write with the configured mode
final_mode_as_configured(csv_mode) == csv_mode

\* The mode of main's final write
final_mode(csv_mode) == IF csv_mode = "append" THEN "append" ELSE "overwrite"

\* ---------------------------------------------------------- scrape_pages
\* scrape_pages' start_page with all_pages taken for an explicit range
start_page_as_given ==
    args.start_page

\* scrape_pages' start_page: 1 with all_pages, else as given
start_page ==
    IF args.all_pages THEN 1 ELSE args.start_page

\* scrape_pages' end_page: the discovered total with all_pages, else as
\* given, start_page when not given
end_page ==
    IF args.all_pages THEN total_pages
    ELSE IF args.end_page # None THEN args.end_page ELSE args.start_page

\* The pager labels a listing page can show (text of `ul.pagination a`)
PagerLabels == {<<"next">>, <<"1", "2", "next">>, <<"3", "1", "2">>}

\* What discover_total_pages can meet after driver.get: the wait for the
\* listing items times out, or the page is there with its pager labels
PagerOutcomes ==
    {[timeout |-> TRUE, labels |-> << >>]}
        \cup {[timeout |-> FALSE, labels |-> l] : l \in PagerLabels}

NoPager == [timeout |-> FALSE, labels |-> << >>]

\* int(a.get_text(strip=True)): the number, or None where int raises
label_int(l) ==
    CASE l = "1" -> 1
      [] l = "2" -> 2
      [] l = "3" -> 3
      [] OTHER -> None

SetMax(S) == CHOOSE m \in S : \A n \in S : n <= m

\* A discovery that counts the pager links
discover_count_links(o) ==
    IF o.timeout THEN 1
    ELSE IF o.labels = << >> THEN 1 ELSE Len(o.labels)

\* discover_total_pages after driver.get: 1 on timeout, else the largest
\* numeric pager label, 1 when there is none
discover_total_pages(o) ==
    IF o.timeout THEN 1
    ELSE LET page_nums == {label_int(o.labels[i]) : i \in DOMAIN o.labels}
                             \ {None}
         IN  IF page_nums # {} THEN SetMax(page_nums) ELSE 1

\* A retry loop that runs once more: range(1, args.retry + 3)
Attempts_one_more(retry) == 1..(retry + 2)

\* The attempts of the retry loop: range(1, args.retry + 2)
Attempts(retry) == 1..(retry + 1)

\* An item loop without the dedup test
keeps_all(row, seen) == TRUE

\* Is the row kept by the dedup test of the item loop?
keeps(row, seen) == ~(row.pid # "" /\ row.pid \in seen)

\* An item loop that puts each new row in front
RECURSIVE extract_newest_first(_, _, _, _)
extract_newest_first(items, n, rws, seen) ==
    IF n = 0 THEN [rows |-> rws, seen |-> seen]
    ELSE LET before == extract_newest_first(items, n - 1, rws, seen)
             row == items[n]
         IN  IF keeps(row, before.seen)
             THEN [rows |-> <<row>> \o before.rows,
                   seen |-> IF row.pid # "" THEN before.seen \cup {row.pid}
                            ELSE before.seen]
             ELSE before

\* The item loop over the first n items: the rows and seen_ids after it
RECURSIVE extract(_, _, _, _)
extract(items, n, rws, seen) ==
    IF n = 0 THEN [rows |-> rws, seen |-> seen]
    ELSE LET before == extract(items, n - 1, rws, seen)
             row == items[n]
         IN  IF keeps(row, before.seen)
             THEN [rows |-> Append(before.rows, row),
                   seen |-> IF row.pid # "" THEN before.seen \cup {row.pid}
                            ELSE before.seen]
             ELSE before

\* A reset test on the page number instead of the offset from start_page
reset_due_by_page_number(p) ==
    /\ args.reset_session_every # 0
    /\ p % args.reset_session_every = 0

\* Is a scheduled session reset due at the top of page p?
reset_due(p) ==
    /\ args.reset_session_every # 0
    /\ (p - start_page) > 0
    /\ (p - start_page) % args.reset_session_every = 0

\* A checkpoint test that looks at the marker only
checkpoint_due_marker(p) ==
    /\ args.checkpoint_every # 0
    /\ p = next_checkpoint_at

\* Is a checkpoint due after page p?
checkpoint_due(p) ==
    /\ args.checkpoint_every # 0
    /\ \/ p = next_checkpoint_at
       \/ (p - start_page + 1) % args.checkpoint_every = 0

\* A page loop that ends at the first page without items
more_pages_until_empty(p) == p + 1 <= end_page /\ ~pg.timeout

\* Does the page loop range(start_page, end_page + 1) go on after page p?
more_pages(p) == p + 1 <= end_page

\* The rows a checkpoint hands to write_csv
checkpoint_rows == rows

\* ------------------------------------------------------------ rate_limit
\* Time is counted in ticks of half a second and only in runs with a rate
\* ceiling (without one the program never reads the clock).  Of the clock
\* only the time since last_call[0] and since the last driver.get matter,
\* and of those only whether they have reached the minimum interval.
TicksPerMinute == 120

Rpms == {20, 30}

\* min_interval = 60.0 / rpm, in ticks
min_interval == TicksPerMinute \div args.rpm

\* What an operation may take beyond its sleeps, and the random part of a
\* sleep, in ticks
Extra == {0, 1}

\* The choices of Extra that make a difference
ExtraNow == IF args.rpm = None THEN {0} ELSE Extra

\* Before the first rate_limit: last_call = [0.0] lies far back, and there
\* was no driver.get
NoClock == [since_call |-> TicksPerMinute, since_get |-> TicksPerMinute,
            gap_ok |-> TRUE, sleeps |-> 0]

capped(t) == IF t > min_interval THEN min_interval ELSE t

\* The clock after d more ticks
later(c, d) ==
    IF args.rpm = None THEN c
    ELSE [c EXCEPT !.since_call = capped(@ + d), !.since_get = capped(@ + d)]

\* The clock after rate_limit(last_call, args.rpm)
rate_limit(c) ==
    IF args.rpm = None THEN c
    ELSE LET elapsed == c.since_call
             slept == IF elapsed < min_interval THEN min_interval - elapsed
                      ELSE 0
         IN  [c EXCEPT !.since_call = 0,
                       !.since_get = capped(@ + slept),
                       !.sleeps = IF slept > 0 THEN 1 ELSE @]

\* The clock at a driver.get: was the one before at least min_interval ago?
at_get(c) ==
    IF args.rpm = None THEN c
    ELSE [c EXCEPT !.gap_ok = @ /\ c.since_get >= min_interval,
                   !.since_get = 0]

\* Ticks of the sleeps of the except branch: the backoff
\* 1.0 + 0.5 * attempt + uniform(0, 0.5), and 1.5 s when make_driver failed
backoff_ticks(att, boot_ok, jitter) ==
    2 + att + jitter + (IF boot_ok THEN 0 ELSE 3)

\* Ticks of the cooldown of a scheduled reset: uniform(3.0, 6.0)
cooldown_ticks == 6

\* --------------------------------------------------- history bookkeeping
\* Also: how the last attempt ended ("ok", "timeout", "error") and whether
\* every attempt appended its rows in the order of the items it processed
NewPg == [gets |-> 0, fails |-> 0, quits |-> 0, tries |-> 0, boots |-> 0,
          timeout |-> FALSE, ok |-> FALSE, allin |-> FALSE, covered |-> FALSE,
          reset |-> FALSE, last |-> "none", inorder |-> TRUE]

\* Is a a subsequence of b (the elements of a, in order, among those of b)?
RECURSIVE IsSubseq(_, _)
IsSubseq(a, b) ==
    IF a = << >> THEN TRUE
    ELSE IF b = << >> THEN FALSE
    ELSE IF Head(a) = Head(b) THEN IsSubseq(Tail(a), Tail(b))
    ELSE IsSubseq(a, Tail(b))

\* The rows an attempt appended
appended(before, after) == SubSeq(after, Len(before) + 1, Len(after))

\* The identity of the session object make_driver returns: one that no
\* variable of the run refers to (the identity of a dropped object may be
\* used again)
new_session == IF main_driver = 1 THEN 2 ELSE 1

\* The summary of the writes of rows: the pages after which a checkpoint was
\* written, the modes the checkpoints used, whether each was handed all of
\* rows, the number of final writes and its mode, the number of rows of the
\* last write, whether no write had fewer rows than the one before, and
\* whether some page was given up after its last attempt
\* Also: the pages whose iteration was started, in order, the number of
\* calls of discover_total_pages and what the last one met
NoLog == [cps |-> << >>, cp_modes |-> {}, cp_whole |-> TRUE,
          finals |-> 0, final_mode |-> "none", last_n |-> 0, mono |-> TRUE,
          skipped |-> FALSE,
          pages |-> << >>, discovers |-> 0, pager |-> NoPager]

\* An except branch that retries on the same session
retry_session_reuse(d, lv, boot_ok) ==
    [quits |-> 0, tries |-> 0, boots |-> 0, driver |-> d, live |-> lv]

\* The session handling of the except branch of an attempt: driver.quit(),
\* the backoff, then make_driver, whose failure is caught and leaves the
\* quit driver in place
retry_session(d, lv, boot_ok) ==
    [quits |-> 1,
     tries |-> 1,
     boots |-> IF boot_ok THEN 1 ELSE 0,
     driver |-> IF boot_ok THEN new_session ELSE d,
     live |-> IF boot_ok THEN (lv \ {d}) \cup {new_session} ELSE lv \ {d}]

Range(f) == {f[i] : i \in DOMAIN f}

RECURSIVE note_first(_, _, _)
note_first(items, n, fs) ==
    IF n = 0 THEN fs
    ELSE LET before == note_first(items, n - 1, fs)
             row == items[n]
         IN  IF row.pid # "" /\ before[row.pid] = NoRow
             THEN [before EXCEPT ![row.pid] = row]
             ELSE before

RECURSIVE count_empty(_, _)
count_empty(items, n) ==
    IF n = 0 THEN 0
    ELSE count_empty(items, n - 1) + (IF items[n].pid = "" THEN 1 ELSE 0)

ProductIds == {r.pid : r \in Rows} \ {""}

\* No write_csv call observed yet
NoWrite == [call |-> "none", mode |-> "none", before |-> NoFile,
            rows |-> << >>, raised |-> FALSE, exit |-> None]

\* ------------------------------------------------------------------ Init
NumPages(a) ==
    LET e == IF a.end_page # None THEN a.end_page ELSE a.start_page
    IN  IF e >= a.start_page THEN e - a.start_page + 1 ELSE 0

\* The runs considered: without a rate ceiling and inter-page delay (see
\* RateArgs for those) and with at most one of checkpoints and scheduled
\* resets; an explicit range is bounded by MaxAttempts, and with all_pages,
\* where the range is ignored, one range that differs from every
\* discovered one and one csv_mode are enough
ArgsSet == {a \in [start_page : StartPages,
                    end_page : {None} \cup 1..MaxEnd,
                    all_pages : BOOLEAN,
                    retry : 0..MaxRetry,
                    checkpoint_every : 0..MaxCheckpoint,
                    reset_session_every : 0..MaxReset,
                    csv_mode : CsvModes,
                    rpm : {None},
                    delay : {0}] :
              /\ (a.checkpoint_every = 0 \/ a.reset_session_every = 0)
              /\ IF a.all_pages
                 THEN /\ a.start_page = 2
                      /\ a.end_page = MaxEnd
                      /\ a.csv_mode = "overwrite"
                 ELSE NumPages(a) * (a.retry + 1) <= MaxAttempts}

Init ==
    /\ args \in ArgsSet
    /\ file \in InitialFiles
    /\ file0 = file
    /\ pc = "main"
    /\ page = 0
    /\ attempt = 0
    /\ rows = << >>
    /\ seen_ids = {}
    /\ next_checkpoint_at = 0
    /\ total_pages = None
    /\ driver = 0
    /\ main_driver = 0
    /\ live = {}
    /\ exit_code = None
    /\ cause = "none"
    /\ log = NoLog
    /\ first_seen = [p \in ProductIds |-> NoRow]
    /\ empties = 0
    /\ pg = NewPg
    /\ clk = NoClock
    /\ lastw = NoWrite
    /\ responses = << >>

\* --------------------------------------------------------------- actions
hist_unchanged == UNCHANGED <<file0, first_seen, empties, lastw, responses>>

\* Spec with a rate ceiling: the runs given by RateArgs, no output file
RateArgs == [start_page : {1},
             end_page : {None, 2},
             all_pages : BOOLEAN,
             retry : {0, 1},
             checkpoint_every : {0},
             reset_session_every : {0, 1},
             csv_mode : {"overwrite"},
             rpm : Rpms,
             delay : {0, 2}]

\* The mode of a checkpoint write
checkpoint_mode == "overwrite"

\* main up to the call of scrape_pages, and scrape_pages up to its loop
MainStart ==
    /\ pc = "main"
    /\ LET prep == main_prepare(file, args.csv_mode)
       IN  /\ main_driver' = 1
           /\ driver' = 1
           /\ file' = prep.file
           /\ IF prep.exit # None
              THEN /\ live' = {}            \* driver.quit() before return 2
                   /\ exit_code' = prep.exit
                   /\ pc' = "conflict"
                   /\ UNCHANGED <<page, next_checkpoint_at>>
              ELSE /\ live' = {1}
                   /\ exit_code' = None
                   /\ IF args.all_pages
                      THEN /\ pc' = "discover"
                           /\ UNCHANGED <<page, next_checkpoint_at>>
                      ELSE /\ next_checkpoint_at' =
                                  start_page + args.checkpoint_every
                           /\ IF start_page <= end_page
                              THEN pc' = "pagetop" /\ page' = start_page
                              ELSE pc' = "returned" /\ page' = page
    /\ UNCHANGED <<args, attempt, rows, seen_ids, total_pages, cause, log, pg,
                   clk>>
    /\ hist_unchanged

\* scrape_pages with all_pages: discover_total_pages on the first URL, then
\* the range 1..total_pages.  driver.get is not guarded here: its exception
\* leaves scrape_pages, and main's finally quits main's driver.
Discover ==
    /\ pc = "discover"
    /\ \/ \E o \in PagerOutcomes :
            LET total == discover_total_pages(o)
            IN  /\ total * (args.retry + 1) <= MaxAttempts
                /\ total_pages' = total
                /\ log' = [log EXCEPT !.discovers = @ + 1, !.pager = o]
                /\ next_checkpoint_at' = start_page + args.checkpoint_every
                /\ IF start_page <= total
                   THEN pc' = "pagetop" /\ page' = start_page
                   ELSE pc' = "returned" /\ page' = page
                /\ UNCHANGED <<live, cause>>
       \/ /\ pc' = "raised"
          /\ cause' = "discover_get"
          /\ live' = live \ {main_driver}
          /\ log' = [log EXCEPT !.discovers = @ + 1]
          /\ UNCHANGED <<total_pages, next_checkpoint_at, page>>
    /\ \E e \in ExtraNow : clk' = later(at_get(clk), e)
    /\ UNCHANGED <<args, file, attempt, rows, seen_ids, driver, main_driver,
                   exit_code, pg>>
    /\ hist_unchanged

\* Top of a page iteration: the scheduled session reset, rate limiting and
\* the URL.  make_driver of the reset is not guarded: its exception leaves
\* scrape_pages, and main's finally quits main's driver.
PageTop ==
    /\ pc = "pagetop"
    /\ IF reset_due(page)
       THEN \E boot_ok \in BOOLEAN :
              IF boot_ok
              THEN /\ driver' = new_session
                   /\ live' = (live \ {driver}) \cup {new_session}
                   /\ pc' = "attempt"
                   /\ attempt' = 1
                   /\ cause' = cause
                   /\ pg' = [NewPg EXCEPT !.reset = TRUE]
                   /\ clk' = rate_limit(later(clk, cooldown_ticks))
              ELSE /\ live' = (live \ {driver}) \ {main_driver}
                   /\ pc' = "raised"
                   /\ cause' = "reset_boot"
                   /\ pg' = [NewPg EXCEPT !.reset = TRUE]
                   /\ clk' = later(clk, cooldown_ticks)
                   /\ UNCHANGED <<driver, attempt>>
       ELSE /\ pc' = "attempt"
            /\ attempt' = 1
            /\ pg' = NewPg
            /\ clk' = rate_limit(clk)
            /\ UNCHANGED <<driver, live, cause>>
    /\ log' = [log EXCEPT !.pages = Append(@, page)]
    /\ UNCHANGED <<args, file, page, rows, seen_ids, next_checkpoint_at,
                   total_pages, main_driver, exit_code>>
    /\ hist_unchanged

\* The except branch of one attempt, after `done` items were processed
AttemptFails(done, timed_out) ==
    LET ex == extract(done, Len(done), rows, seen_ids)
    IN  /\ rows' = ex.rows
        /\ seen_ids' = ex.seen
        /\ first_seen' = note_first(done, Len(done), first_seen)
        /\ empties' = empties + count_empty(done, Len(done))
        /\ \E boot_ok \in BOOLEAN :
             LET rs == retry_session(driver, live, boot_ok)
             IN  /\ driver' = rs.driver
                 /\ live' = rs.live
                 /\ \E e \in ExtraNow :
                      clk' = later(at_get(clk),
                                   backoff_ticks(attempt, boot_ok, e))
                 /\ pg' = [pg EXCEPT
                      !.gets = @ + 1,
                      !.fails = @ + 1,
                      !.quits = @ + rs.quits,
                      !.tries = @ + rs.tries,
                      !.boots = @ + rs.boots,
                      !.timeout = @ \/ timed_out,
                      !.last = IF timed_out THEN "timeout" ELSE "error",
                      !.inorder = @ /\ IsSubseq(appended(rows, ex.rows), done)]
        /\ IF attempt + 1 \in Attempts(args.retry)
           THEN /\ attempt' = attempt + 1
                /\ pc' = "attempt"
                /\ log' = log
           ELSE /\ attempt' = attempt
                /\ pc' = "postpage"
                /\ log' = [log EXCEPT !.skipped = TRUE]

\* One iteration of the retry loop
Attempt ==
    /\ pc = "attempt"
    /\ attempt \in Attempts(args.retry)
    /\ \/ \* driver.get, wait.until and the item loop all succeed
          /\ driver \in live
          /\ \E items \in ItemLists :
               LET ex == extract(items, Len(items), rows, seen_ids)
               IN  /\ rows' = ex.rows
                   /\ seen_ids' = ex.seen
                   /\ first_seen' = note_first(items, Len(items), first_seen)
                   /\ empties' = empties + count_empty(items, Len(items))
                   /\ pg' = [pg EXCEPT
                        !.gets = @ + 1,
                        !.ok = TRUE,
                        !.last = "ok",
                        !.inorder = @ /\ IsSubseq(appended(rows, ex.rows),
                                                  items),
                        !.allin = \A i \in DOMAIN items :
                                     items[i] \in Range(ex.rows),
                        !.covered = \A i \in DOMAIN items :
                                     \/ items[i].pid = ""
                                     \/ items[i].pid \in ex.seen]
          /\ pc' = "postpage"
          /\ \E e \in ExtraNow : clk' = later(at_get(clk), e)
          /\ UNCHANGED <<attempt, driver, live, log>>
       \/ \* wait.until raises TimeoutException: no listing item appeared
          /\ driver \in live
          /\ AttemptFails(<< >>, TRUE)
       \/ \* driver.get raises, or the item loop raises part-way
          /\ \E done \in Prefixes :
               /\ (driver \notin live => done = << >>)
               /\ AttemptFails(done, FALSE)
    /\ UNCHANGED <<args, file, page, next_checkpoint_at, total_pages,
                   main_driver, exit_code, cause, file0, lastw,
                   responses>>

\* End of a page iteration: the inter-page delay, the checkpoint, and the
\* step of the page loop (or the return of scrape_pages)
PostPage ==
    /\ pc = "postpage"
    /\ IF checkpoint_due(page)
       THEN LET w == write_csv(file, checkpoint_rows, checkpoint_mode)
            IN  /\ file' = w.file
                /\ log' = [log EXCEPT
                     !.cps = Append(@, page),
                     !.cp_modes = @ \cup {checkpoint_mode},
                     !.cp_whole = @ /\ checkpoint_rows = rows,
                     !.last_n = Len(checkpoint_rows),
                     !.mono = @ /\ Len(checkpoint_rows) >= log.last_n]
                /\ next_checkpoint_at' = page + args.checkpoint_every
       ELSE UNCHANGED <<file, log, next_checkpoint_at>>
    /\ IF more_pages(page)
       THEN page' = page + 1 /\ pc' = "pagetop" /\ main_driver' = main_driver
       ELSE page' = page /\ pc' = "returned" /\ main_driver' = driver
    /\ \E e \in ExtraNow : clk' = later(clk, args.delay + e)
    /\ UNCHANGED <<args, attempt, rows, seen_ids, total_pages, driver, live,
                   exit_code, cause, pg, file0, first_seen, empties, lastw,
                   responses>>

\* The tail of main after scrape_pages returned: finally, then the final write
MainFinish ==
    /\ pc = "returned"
    /\ live' = live \ {main_driver}
    /\ LET m == final_mode(args.csv_mode)
           w == write_csv(file, rows, m)
       IN  /\ file' = w.file
           /\ log' = [log EXCEPT
                !.finals = @ + 1,
                !.final_mode = m,
                !.last_n = Len(rows),
                !.mono = @ /\ Len(rows) >= log.last_n]
           /\ exit_code' = IF w.raised THEN 2 ELSE 0
    /\ pc' = "done"
    /\ UNCHANGED <<args, page, attempt, rows, seen_ids, next_checkpoint_at,
                   total_pages, driver, main_driver, cause, pg, clk, file0,
                   first_seen, empties, lastw,
                   responses>>

\* A KeyboardInterrupt while scrape_pages runs: no handler in scrape_pages
\* catches it (they catch Exception), main's finally quits main's driver
\* and the interrupt leaves main.
Interrupt ==
    /\ pc \in {"discover", "pagetop", "attempt", "postpage"}
    /\ live' = live \ {main_driver}
    /\ pc' = "raised"
    /\ cause' = "interrupt"
    /\ UNCHANGED <<args, file, page, attempt, rows, seen_ids,
                   next_checkpoint_at, total_pages, driver, main_driver,
                   exit_code, log, pg, clk>>
    /\ hist_unchanged

Next ==
    \/ MainStart
    \/ Discover
    \/ PageTop
    \/ Attempt
    \/ PostPage
    \/ MainFinish
    \/ Interrupt

Spec == Init /\ [][Next]_vars

\* The same program in runs with a rate ceiling, where the clock counts
InitR ==
    /\ args \in RateArgs
    /\ file = NoFile
    /\ file0 = file
    /\ pc = "main"
    /\ page = 0
    /\ attempt = 0
    /\ rows = << >>
    /\ seen_ids = {}
    /\ next_checkpoint_at = 0
    /\ total_pages = None
    /\ driver = 0
    /\ main_driver = 0
    /\ live = {}
    /\ exit_code = None
    /\ cause = "none"
    /\ log = NoLog
    /\ first_seen = [p \in ProductIds |-> NoRow]
    /\ empties = 0
    /\ pg = NewPg
    /\ clk = NoClock
    /\ lastw = NoWrite
    /\ responses = << >>

RateSpec == InitR /\ [][Next]_vars

\* ----------------------------------------------------- write_csv harness
\* write_csv and main's preparation of the output file, applied to any file
\* with any rows under any mode (main itself never passes mode "new")
MaxLines == 4        \* the harness writes to files of at most MaxLines lines
MaxBuyPages == 3     \* buying_scraper: the site has data on fewer pages

WriteRows == {<< >>} \cup ItemLists

InitW ==
    /\ args \in {a \in ArgsSet : a.start_page = 1 /\ a.end_page = None
                     /\ ~a.all_pages
                     /\ a.retry = 0 /\ a.checkpoint_every = 0
                     /\ a.reset_session_every = 0 /\ a.csv_mode = "new"}
    /\ file \in InitialFiles
    /\ file0 = file
    /\ pc = "harness"
    /\ page = 0
    /\ attempt = 0
    /\ rows = << >>
    /\ seen_ids = {}
    /\ next_checkpoint_at = 0
    /\ total_pages = None
    /\ driver = 0
    /\ main_driver = 0
    /\ live = {}
    /\ exit_code = None
    /\ cause = "none"
    /\ log = NoLog
    /\ first_seen = [p \in ProductIds |-> NoRow]
    /\ empties = 0
    /\ pg = NewPg
    /\ clk = NoClock
    /\ lastw = NoWrite
    /\ responses = << >>

harness_unchanged ==
    UNCHANGED <<args, pc, page, attempt, rows, seen_ids, next_checkpoint_at,
                total_pages, driver, main_driver, live, exit_code, file0, cause, log,
                first_seen, empties, pg, clk, responses>>

CallWriteCsv ==
    /\ pc = "harness"
    /\ Len(file.lines) <= MaxLines
    /\ \E rws \in WriteRows, mode \in CsvModes :
         LET w == write_csv(file, rws, mode)
         IN  /\ file' = w.file
             /\ lastw' = [call |-> "write_csv", mode |-> mode, before |-> file,
                          rows |-> rws, raised |-> w.raised, exit |-> None]
    /\ harness_unchanged

CallMainPrepare ==
    /\ pc = "harness"
    /\ \E csv_mode \in CsvModes :
         LET prep == main_prepare(file, csv_mode)
         IN  /\ file' = prep.file
             /\ lastw' = [call |-> "main_prepare", mode |-> csv_mode,
                          before |-> file, rows |-> << >>, raised |-> FALSE,
                          exit |-> prep.exit]
    /\ harness_unchanged

\* The file is removed between two calls
RemoveFile ==
    /\ pc = "harness"
    /\ file.exists
    /\ file' = NoFile
    /\ lastw' = NoWrite
    /\ harness_unchanged

NextW == CallWriteCsv \/ CallMainPrepare \/ RemoveFile

WriteSpec == InitW /\ [][NextW]_vars

\* ------------------------------------------------------- buying_scraper
\* main of buying_scraper.py: it opens csv_filename for writing, writes the
\* header, and requests page 1, 2, ... until a page ends the loop.  Here
\* file is csv_filename, page the loop variable, pc the position ("main"
\* before the open, "request" in the loop, "done" after it).

\* A line of csv_filename: the header, or the row of a card
BuyHeader == [id |-> "HEADER"]

BuyRow(card) == [id |-> card]

\* csv_filename before the run: absent, or left by an earlier run
BuyInitialFiles == {NoFile,
                    [exists |-> TRUE, lines |-> <<BuyHeader, BuyRow("old")>>]}

\* The non-empty buyingPrices lists a page can carry
BuyingPrices == {<<"c1">>, <<"c1", "c2">>, <<"c2", "c3">>}

\* How one iteration can go: the page is written ("ok"), the status is 403,
\* the status is another one than 200, the page has no __NEXT_DATA__ tag,
\* buyingPrices is empty, requests.get raises, json.loads raises, or the
\* row of a card raises after the rows of the cards before it were written
Outcomes == {"ok", "403", "non200", "no_tag", "empty", "get_raises",
             "json_raises", "row_raises"}

\* A loop that goes on to the next page when buyingPrices is empty
breaks_unless_empty(outcome) == outcome \notin {"ok", "empty"}

\* Does the iteration end the loop (break), or go on with page + 1?
breaks(outcome) == outcome # "ok"

\* The rows one iteration writes: those of all cards, of the first k cards
\* when the row of card k + 1 raises, none when the loop ends before
written(outcome, cards, k) ==
    IF outcome = "ok" THEN [i \in 1..Len(cards) |-> BuyRow(cards[i])]
    ELSE IF outcome = "row_raises" THEN [i \in 1..k |-> BuyRow(cards[i])]
    ELSE << >>

\* The arguments of Spec have no part here
BuyArgs == [start_page |-> 1, end_page |-> None, all_pages |-> FALSE,
            retry |-> 0, checkpoint_every |-> 0, reset_session_every |-> 0,
            csv_mode |-> "overwrite", rpm |-> None, delay |-> 0]

BuyInit ==
    /\ args = BuyArgs
    /\ file \in BuyInitialFiles
    /\ file0 = file
    /\ pc = "main"
    /\ page = 0
    /\ attempt = 0
    /\ rows = << >>
    /\ seen_ids = {}
    /\ next_checkpoint_at = 0
    /\ total_pages = None
    /\ driver = 0
    /\ main_driver = 0
    /\ live = {}
    /\ exit_code = None
    /\ cause = "none"
    /\ log = NoLog
    /\ first_seen = [p \in ProductIds |-> NoRow]
    /\ empties = 0
    /\ pg = NewPg
    /\ clk = NoClock
    /\ lastw = NoWrite
    /\ responses = << >>

buy_unchanged ==
    UNCHANGED <<args, attempt, rows, seen_ids, next_checkpoint_at,
                total_pages, driver, main_driver, live, exit_code, file0,
                cause, log, first_seen, empties, pg, clk, lastw>>

\* open(csv_filename, "w") and the header row; an exception of the open
\* ends main before any request
BuyOpen ==
    /\ pc = "main"
    /\ \/ /\ file' = [exists |-> TRUE, lines |-> <<BuyHeader>>]
          /\ page' = 1
          /\ pc' = "request"
       \/ /\ pc' = "done"
          /\ UNCHANGED <<file, page>>
    /\ UNCHANGED responses
    /\ buy_unchanged

\* One iteration of the while loop
BuyPage ==
    /\ pc = "request"
    /\ \E outcome \in Outcomes, cards \in BuyingPrices :
         \E k \in 0..(Len(cards) - 1) :
           /\ outcome # "row_raises" => k = 0
           /\ ~breaks(outcome) => page < MaxBuyPages
           /\ LET rws == written(outcome, cards, k)
              IN  /\ file' = [file EXCEPT !.lines = @ \o rws]
                  /\ responses' = Append(responses,
                                         [page |-> page, outcome |-> outcome,
                                          rows |-> rws])
           /\ IF breaks(outcome)
              THEN pc' = "done" /\ page' = page
              ELSE pc' = "request" /\ page' = page + 1
    /\ buy_unchanged

BuyNext == BuyOpen \/ BuyPage

BuySpec == BuyInit /\ [][BuyNext]_vars

\* ================================================================ claims
Terminal == {"done", "raised", "conflict"}

\* The pages whose iteration of the page loop has run to its end
Completed ==
    {p \in start_page..end_page : p < page \/ pc \in {"returned", "done"}}

IsSuffix(t, u) ==
    /\ Len(t) <= Len(u)
    /\ SubSeq(u, Len(u) - Len(t) + 1, Len(u)) = t

\* C1: every page gets at most 1 + retry fetch attempts; when all of them
\* fail the page is given up only after the last attempt, the page loop goes
\* on with the next page of the range (or returns after the last page), the
\* exhausted page never makes main raise, and once scrape_pages has returned
\* main performs the final write.
C1_Step ==
    /\ pg'.gets <= args.retry + 1
    /\ (pc = "attempt" /\ pc' = "postpage" /\ ~pg'.ok)
          => /\ pg'.gets = args.retry + 1
             /\ pg'.fails = args.retry + 1
             /\ page' = page
             /\ log'.skipped
    /\ (pc = "attempt" /\ pc' = "raised") => cause' = "interrupt"
    /\ (pc = "postpage" /\ pc' = "raised") => cause' = "interrupt"
    /\ (pc = "postpage" /\ ~pg.ok /\ pc' # "raised")
          => IF page < end_page
             THEN pc' = "pagetop" /\ page' = page + 1
             ELSE pc' = "returned"
    /\ pc = "returned" => (pc' = "done" /\ log'.finals = 1 /\ exit_code' = 0)

C1_RetryExhaustionIsNotFatal == [][C1_Step]_vars

\* C1 witness: a page was given up after its last attempt, a later page
\* was fetched successfully and the run reached the final write
C1_Witness ==
    /\ pc = "done"
    /\ log.skipped
    /\ pg.ok
    /\ args.retry >= 1
    /\ log.finals = 1

\* C2: rows never holds two rows with the same non-empty product ID, the
\* row kept for an ID is the first one processed with that ID, and every
\* processed item with an empty ID is in rows.
C2_DedupInvariant ==
    /\ \A i, j \in DOMAIN rows :
          (i # j /\ rows[i].pid = rows[j].pid) => rows[i].pid = ""
    /\ \A i \in DOMAIN rows :
          rows[i].pid # "" => rows[i] = first_seen[rows[i].pid]
    /\ \A p \in ProductIds :
          first_seen[p] # NoRow => \E i \in DOMAIN rows : rows[i] = first_seen[p]
    /\ Cardinality({i \in DOMAIN rows : rows[i].pid = ""}) = empties
    /\ seen_ids = {rows[i].pid : i \in DOMAIN rows} \ {""}

\* C2 witness: a later listing of a known ID was dropped (the successful
\* page showed a row that is not in rows) after failed attempts, and two
\* items with an empty ID were both kept
C2_Witness ==
    /\ pg.ok
    /\ ~pg.allin
    /\ pg.fails >= 1
    /\ empties >= 2
    /\ first_seen["a"] = Row("a", 1)

\* C3 (as claimed): a page load that times out with no listing item gets
\* exactly one fetch attempt, triggers no retry and does not destroy or
\* replace the session.
C3_NoItemsIsNotRetried ==
    pg.timeout => /\ pg.gets = 1
                  /\ pg.quits = 0
                  /\ pg.tries = 0
                  /\ pc # "attempt"

C5_CheckpointCadence ==
    LET c == args.checkpoint_every
        due == {p \in Completed : c > 0 /\ (p - start_page + 1) % c = 0}
    IN  /\ {log.cps[i] : i \in DOMAIN log.cps} = due
        /\ Len(log.cps) = Cardinality(due)
        /\ \A i, j \in DOMAIN log.cps : i < j => log.cps[i] < log.cps[j]
        /\ log.cp_modes \subseteq {"overwrite"}
        /\ log.cp_whole
        /\ log.mono
        /\ (c = 0 => log.cps = << >>)
        /\ (pc = "done" /\ c > 0
               => Len(log.cps) = (end_page - start_page + 1) \div c)
        /\ (pc = "done" => log.finals = 1 /\ log.last_n = Len(rows))
        /\ (pc # "done" => log.finals = 0)

\* C5 witness: checkpoint interval 2 over the five pages 1..5: checkpoints
\* after pages 2 and 4, then the final write
C5_Witness ==
    /\ pc = "done"
    /\ args.checkpoint_every = 2
    /\ start_page = 1
    /\ end_page = 5
    /\ log.cps = <<2, 4>>
    /\ log.finals = 1
    /\ Len(rows) >= 3

\* C6 (as claimed): when main has returned or raised, no session is live.
C6_SessionReleasedOnExit == pc \in Terminal => live = {}

\* C7 (as claimed): when an interrupt ends a crawl that has accumulated
\* rows, the rows have been written to the output file.
C7_InterruptKeepsRows ==
    (pc = "raised" /\ cause = "interrupt" /\ rows # << >>)
        => (file.exists /\ IsSuffix(rows, file.lines))

\* C8 (as claimed): a failure of make_driver for a replacement session
\* never makes the run end without its final write.
C8_BootFailureIsNotFatal == pc = "raised" => cause # "reset_boot"

\* C9 (as claimed): after a completed run with csv_mode append against an
\* existing file, the file is its content before the run followed by rows.
C9_AppendPreservesFile ==
    (pc = "done" /\ args.csv_mode = "append" /\ file0.exists)
        => file.lines = file0.lines \o rows

\* C10: write_csv with mode new on an existing file raises and leaves the
\* file as it was, on an absent file it creates header plus rows; main's
\* preparation returns 2 for mode new on an existing file and leaves it as
\* it was.
C10_NewModeConflict ==
    /\ (lastw.call = "write_csv" /\ lastw.mode = "new")
          => IF lastw.before.exists
             THEN lastw.raised /\ file = lastw.before
             ELSE /\ ~lastw.raised
                  /\ file = [exists |-> TRUE,
                             lines |-> <<Header>> \o lastw.rows]
    /\ (lastw.call = "main_prepare" /\ lastw.mode = "new")
          => IF lastw.before.exists
             THEN lastw.exit = 2 /\ file = lastw.before
             ELSE lastw.exit = None /\ file = lastw.before

\* C10 witness: write_csv was called with mode new on an existing file
\* with rows to write, and raised
C10_Witness ==
    /\ lastw.call = "write_csv"
    /\ lastw.mode = "new"
    /\ lastw.before.exists
    /\ lastw.rows # << >>
    /\ lastw.raised

IsPrefix(t, u) == Len(t) <= Len(u) /\ SubSeq(u, 1, Len(t)) = t

\* The pages first..last in ascending order
PageSeq(first, last) ==
    [i \in 1..(IF last >= first THEN last - first + 1 ELSE 0) |-> first + i - 1]

\* C11 (as claimed): in a run with csv_mode new whose output file exists,
\* no session is ever created and no page is fetched.
C11_ConflictBeforeSession ==
    (args.csv_mode = "new" /\ file0.exists)
        => /\ main_driver = 0
           /\ driver = 0
           /\ live = {}
           /\ log.pages = << >>
           /\ log.discovers = 0

\* C12: rows only grows at its end (what is in it keeps its place), the
\* page number never goes back, every attempt appends its rows in the DOM
\* order of the items it processed, and every checkpoint and the final
\* write list rows in that order.
C12_Step ==
    /\ IsPrefix(rows, rows')
    /\ page' >= page
    /\ pg'.inorder
    /\ log'.cps # log.cps => file'.lines = <<Header>> \o rows'
    /\ log'.finals # log.finals => IsSuffix(rows', file'.lines)

C12_RowsInPageAndDomOrder == [][C12_Step]_vars

\* C12 witness: a completed run over at least two pages with a checkpoint,
\* at least three rows, and a later listing of a known ID dropped on the
\* last page
C12_Witness ==
    /\ pc = "done"
    /\ Len(log.pages) >= 2
    /\ log.cps # << >>
    /\ Len(rows) >= 3
    /\ pg.ok
    /\ ~pg.allin

\* C13: with an explicit range, an attempt that finds no items changes
\* neither rows nor seen_ids and never ends the run, the page loop goes on
\* after such a page, and a completed run has visited every page of the
\* range, written all of rows and returns 0.
C13_Step ==
    ~args.all_pages =>
        /\ (pc = "attempt" /\ pg'.gets = pg.gets + 1 /\ pg'.last = "timeout")
              => /\ rows' = rows
                 /\ seen_ids' = seen_ids
                 /\ page' = page
                 /\ pc' \in {"attempt", "postpage"}
        /\ (pc = "postpage" /\ pg.timeout /\ pc' # "raised")
              => IF page < end_page
                 THEN pc' = "pagetop" /\ page' = page + 1
                 ELSE pc' = "returned"
        /\ pc' = "done"
              => /\ exit_code' = 0
                 /\ log'.pages = PageSeq(start_page, end_page)
                 /\ log'.finals = 1
                 /\ log'.last_n = Len(rows')

C13_EmptyPageIsNotFatal == [][C13_Step]_vars

\* C13 witness: three pages, the first two give one row each, the third
\* has no items; the run completes with two rows and returns 0
C13_Witness ==
    /\ pc = "done"
    /\ ~args.all_pages
    /\ log.pages = <<1, 2, 3>>
    /\ pg.last = "timeout"
    /\ ~pg.ok
    /\ pg.gets = pg.fails
    /\ Len(rows) = 2
    /\ exit_code = 0

\* C14 (as claimed): a completed run has made exactly one final write, with
\* the configured csv_mode.
C14_Original ==
    pc = "done" => (log.finals = 1 /\ log.final_mode = args.csv_mode)

\* C14 (amended): a completed run has made exactly one final write of all
\* of rows, and none before the last page; its mode is append when
\* csv_mode is append and overwrite otherwise (also for csv_mode new).
C14_FinalWrite ==
    /\ pc = "done"
          => /\ log.finals = 1
             /\ log.final_mode = (IF args.csv_mode = "append" THEN "append"
                                  ELSE "overwrite")
             /\ log.last_n = Len(rows)
             /\ exit_code = 0
             /\ IsSuffix(rows, file.lines)
             /\ (args.csv_mode # "append" => file.lines = <<Header>> \o rows)
    /\ pc # "done" => log.finals = 0

\* C14 witness: a run with csv_mode new has written a checkpoint, so that
\* the file exists at the final write, and has completed
C14_Witness ==
    /\ pc = "done"
    /\ args.csv_mode = "new"
    /\ log.cps # << >>
    /\ rows # << >>
    /\ log.final_mode = "overwrite"

\* C15: whenever the output file exists it is the header line followed by
\* data rows only.
C15_FileWellFormed ==
    file.exists
        => /\ Len(file.lines) >= 1
           /\ file.lines[1] = Header
           /\ \A i \in 2..Len(file.lines) : file.lines[i] \in Rows

\* C15 witness: a run with csv_mode append against an existing file, with
\* a page given up, has appended its rows
C15_Witness ==
    /\ pc = "done"
    /\ args.csv_mode = "append"
    /\ file0.exists
    /\ log.skipped
    /\ rows # << >>
    /\ Len(file.lines) > Len(file0.lines)

\* C16 (as claimed): with a rate ceiling, every driver.get comes at least
\* min_interval after the one before it.
C16_FetchesSpaced == args.rpm # None => clk.gap_ok

\* C17: a scheduled reset is made at the top of page p, before its first
\* attempt, exactly when reset_session_every = r > 0 and p = start_page +
\* k * r for some k >= 1; after it the first attempt has a live session.
C17_ResetSchedule ==
    LET r == args.reset_session_every
        scheduled == r > 0 /\ \E k \in 1..(MaxEnd + 1) : page = start_page + k * r
    IN  /\ pc \in {"attempt", "postpage", "returned", "done"} /\ page > 0
              => (pg.reset <=> scheduled)
        /\ (pc = "raised" /\ cause = "reset_boot") => (pg.reset /\ scheduled)
        /\ (pg.reset /\ pc = "attempt" /\ pg.gets = 0) => driver \in live
        /\ pg.reset => (r > 0 /\ page > start_page)

\* C17 witness: a reset at the top of the third page of a range that starts
\* at page 2, with interval 2, after a page was given up
C17_Witness ==
    /\ pc = "attempt"
    /\ pg.reset
    /\ pg.gets = 0
    /\ args.reset_session_every = 2
    /\ start_page = 2
    /\ page = 4
    /\ log.skipped

\* The result the pager outcome o stands for: 1 on timeout or without a
\* numeric label, else the largest numeric label
Discovered(o) ==
    LET nums == {i \in DOMAIN o.labels : label_int(o.labels[i]) # None}
    IN  IF o.timeout \/ nums = {} THEN 1
        ELSE CHOOSE m \in 1..3 :
               /\ \E i \in nums : label_int(o.labels[i]) = m
               /\ \A i \in nums : label_int(o.labels[i]) <= m

\* C18: with all_pages discover_total_pages is called once, before any
\* page iteration, its result is 1 on timeout or without numeric label and
\* the largest numeric label otherwise, and the pages are 1..result in
\* ascending order whatever start_page and end_page were given; without
\* all_pages it is never called and the pages are start_page..end_page
\* (end_page defaulting to start_page), each once in ascending order.
C18_PageRange ==
    LET first == IF args.all_pages THEN 1 ELSE args.start_page
        last == IF args.all_pages THEN total_pages
                ELSE IF args.end_page = None THEN args.start_page
                ELSE args.end_page
        all == PageSeq(first, last)
    IN  /\ log.discovers <= 1
        /\ ~args.all_pages => (log.discovers = 0 /\ total_pages = None)
        /\ (args.all_pages /\ pc \in {"pagetop", "attempt", "postpage",
                                      "returned", "done"})
              => log.discovers = 1
        /\ pc \in {"main", "discover"} => log.pages = << >>
        /\ total_pages # None => total_pages = Discovered(log.pager)
        /\ IsPrefix(log.pages, all)
        /\ pc \in {"returned", "done"} => log.pages = all

\* C18 witness: all_pages with start_page 2 given and a pager whose largest
\* numeric label is 3: the pages 1, 2, 3 were crawled
C18_Witness ==
    /\ pc = "done"
    /\ args.all_pages
    /\ args.start_page = 2
    /\ total_pages = 3
    /\ log.pages = <<1, 2, 3>>

\* C19 (as claimed): whenever an attempt is about to call driver.get, its
\* driver is a live session.
C19_FetchOnLiveSession == pc = "attempt" => driver \in live

\* C20 (as claimed): an attempt that ends in an error leaves rows and
\* seen_ids as they were before it.
C20_Step ==
    pg'.fails = pg.fails + 1 => (rows' = rows /\ seen_ids' = seen_ids)

C20_FailedAttemptLeavesRows == [][C20_Step]_vars

\* The rows of the first n responses, in order
RECURSIVE AllWritten(_)
AllWritten(n) ==
    IF n = 0 THEN << >> ELSE AllWritten(n - 1) \o responses[n].rows

\* C21: the buying-price scraper requests the pages 1, 2, 3, ... each once
\* in ascending order; once a page is requested the file is the header
\* followed by the rows written for the pages requested so far, in order;
\* every page requested before the last one was written in full, the loop
\* has ended exactly when the last page requested gave 403, another status
\* than 200, no data tag, an empty list or an exception, and then nothing
\* more is requested.
C21_BuyingScraper ==
    LET n == Len(responses)
    IN  /\ \A i \in 1..n : responses[i].page = i
        /\ \A i \in 1..(n - 1) : responses[i].outcome = "ok"
        /\ pc = "main" => (n = 0 /\ file = file0)
        /\ pc = "request" => (page = n + 1
                              /\ \A i \in 1..n : responses[i].outcome = "ok")
        /\ pc = "done"
              => IF n = 0 THEN file = file0
                 ELSE /\ responses[n].outcome # "ok"
                      /\ page = n
        /\ (pc = "request" \/ n > 0)
              => /\ file.exists
                 /\ file.lines = <<BuyHeader>> \o AllWritten(n)
                 /\ \A i \in 2..Len(file.lines) : file.lines[i] # BuyHeader

\* C21 witness: pages 1 and 2 were written over a file of an earlier run,
\* page 3 returned 403, and the rows of pages 1 and 2 are in the file
C21_Witness ==
    /\ pc = "done"
    /\ file0.exists
    /\ Len(responses) = 3
    /\ responses[3].outcome = "403"
    /\ file.lines = <<BuyHeader>> \o responses[1].rows \o responses[2].rows
    /\ Len(file.lines) >= 4

====
